---- MODULE Spec2Model ----
(***************************************************************************)
(* A model of the private blockchain of hryer/private-blockchain:          *)
(*   Block       src/src/block.js       (constructor, validate, getBData)  *)
(*   Blockchain  src/unnamed/part_000   (the chain store, the star         *)
(*                                       registration protocol, the chain  *)
(*                                       validator)                        *)
(*                                                                         *)
(* JavaScript runs every piece of code between two awaits to completion,   *)
(* so one action of the model is one such segment.  A submitStar call is   *)
(* cut by its two awaits (the signature verifier, getBlockByHeight inside  *)
(* _addBlock) into three segments.                                         *)
(*                                                                         *)
(* Representation.  A JavaScript string that the code converts is a        *)
(* sequence of code points; a JSON text is the sequence of its             *)
(* <<key, value>> members in the order JSON.stringify emits them; SHA256   *)
(* is collision free, so a digest is the tagged text it was computed from; *)
(* null is the empty tuple; a number that may be NaN is <<n>> or <<>>.     *)
(***************************************************************************)
EXTENDS Integers, Sequences, FiniteSets

\* ---------------------------------------------------------------- bounds
\* Seconds on the clock when the store is constructed.
StartTime == 1000
\* How many seconds the clock may advance during a run.
MaxTicks == 1
\* The longest chain a run builds (genesis included).
MaxChain == 3
\* How many outside modifications of stored blocks a run makes.
MaxTampers == 1

\* The callers' concurrently running submitStar calls.
CallIds == {1, 2}

\* ------------------------------------------------------- program constants
\* part_000:117  diffTime / 60 <= 5
WindowMinutes == 5
SecondsPerMinute == 60

Null == <<>>
NaN == <<>>
Num(n) == <<n>>
IsNum(x) == x # NaN

\* undefined: no string, so a code point no string has.
Undefined == <<-1>>

\* "a" : a wallet address (ASCII).
Addresses == { <<97>> }
\* "a" and "b": two owners.
Owners == { <<97>>, <<98>> }
\* "s" and the degree sign U+00B0 of a declination such as 68° 52' 56.9.
Stars == { <<115>>, <<176>> }
\* 'Genesis Block'
GenesisText == <<71, 101, 110, 101, 115, 105, 115, 32, 66, 108, 111, 99, 107>>
GenesisData == << <<"data", GenesisText>> >>
StarData(address, star) == << <<"owner", address>>, <<"star", star>> >>

\* ------------------------------------------------------------ conversions
RECURSIVE Flatten(_)
Flatten(ss) == IF ss = <<>> THEN <<>> ELSE Head(ss) \o Flatten(Tail(ss))

\* Buffer(string): the UTF-8 bytes of a string.
UTF8Char(cp) ==
    IF cp < 128 THEN <<cp>>
    ELSE IF cp < 2048 THEN <<192 + (cp \div 64), 128 + (cp % 64)>>
    ELSE <<224 + (cp \div 4096), 128 + ((cp \div 64) % 64), 128 + (cp % 64)>>
UTF8(str) == Flatten([i \in 1..Len(str) |-> UTF8Char(str[i])])

\* buffer.toString('hex'): two hex digits per byte.
ToHex(bytes) == Flatten([i \in 1..Len(bytes) |-> <<bytes[i] \div 16, bytes[i] % 16>>])

\* hex2ascii(hex): one character per pair of hex digits, NUL dropped.
hex2ascii(hex) ==
    Flatten([i \in 1..(Len(hex) \div 2) |->
        LET code == 16 * hex[2 * i - 1] + hex[2 * i]
        IN  IF code # 0 THEN <<code>> ELSE <<>>])

\* Buffer(JSON.stringify(data)).toString('hex'): the members' names and the
\* punctuation are ASCII and survive both directions; the values are converted.
EncodeBody(data) == [i \in 1..Len(data) |-> <<data[i][1], ToHex(UTF8(data[i][2]))>>]

\* JSON.parse(hex2ascii(body))
DecodeBody(body) == [i \in 1..Len(body) |-> <<body[i][1], hex2ascii(body[i][2])>>]

SHA256(text) == <<"SHA256", text>>

\* ------------------------------------------------------------------ Block
\* new Block(data)
Block(data) ==
    [hash |-> Null, height |-> 0, body |-> EncodeBody(data), time |-> 0,
     previousBlockHash |-> Null]

\* JSON.stringify(block) of a Block: its own properties in creation order.
JSONstringifyBlock(b) ==
    << <<"hash", b.hash>>, <<"height", b.height>>, <<"body", b.body>>,
       <<"time", b.time>>, <<"previousBlockHash", b.previousBlockHash>> >>

\* JSON.stringify(currentData) in Block.validate.
JSONstringifyCurrentData(b) ==
    << <<"height", b.height>>, <<"body", b.body>>,
       <<"time", b.time>>, <<"previousBlockHash", b.previousBlockHash>> >>

\* Block.validate(): how the returned promise settles.
validate(b) ==
    LET validHash == b.hash
        currentHash == SHA256(JSONstringifyCurrentData(b))
    IN  IF currentHash = validHash THEN "resolve_true" ELSE "reject_false"

GenesisError == << <<"Error: Genesis Block", <<>> >> >>
\* Block.getBData()
getBData(b) == IF b.height # 0 THEN DecodeBody(b.body) ELSE GenesisError

\* data.owner: the member's value, undefined for an object without it and for
\* a string.
Owner(data) ==
    LET hits == {k \in 1..Len(data) : data[k][1] = "owner"}
    IN  IF hits = {} THEN Undefined ELSE data[CHOOSE k \in hits : TRUE][2]


\* ------------------------------------------------------------- the store
VARIABLES
    chain,      \* Blockchain.chain: the stored blocks, position i at chain[i + 1]
    height,     \* Blockchain.height
    now,        \* new Date().getTime().toString().slice(0, -3): the clock, in seconds
    calls,      \* the locals of each caller's submitStar call and where it stands
    mq,         \* the microtask queue: the calls awaiting getBlockByHeight, oldest first
    overlap,    \* history: some _addBlock began while another had not yet committed
    tampered,   \* history: the positions of the blocks modified from outside
    ret         \* what the lookup that has just returned gave its caller

vars == <<chain, height, now, calls, mq, overlap, tampered, ret>>

\* A slip: the block is pushed and this.height is not updated.
addBlockCommit_noCount(ch, h, block, t) ==
    LET b1 == [block EXCEPT !.height = Len(ch), !.time = t]
        b2 == [b1 EXCEPT !.hash = SHA256(JSONstringifyBlock(b1))]
    IN  [chain |-> Append(ch, b2), height |-> h, resolved |-> TRUE]

\* A slip: unshift for push.
addBlockCommit_unshift(ch, h, block, t) ==
    LET b1 == [block EXCEPT !.height = Len(ch), !.time = t]
        b2 == [b1 EXCEPT !.hash = SHA256(JSONstringifyBlock(b1))]
    IN  [chain |-> <<b2>> \o ch, height |-> h + 1, resolved |-> TRUE]

\* A slip: the block is pushed first, and numbered by the length after.
addBlockCommit_indexAfterPush(ch, h, block, t) ==
    LET b1 == [block EXCEPT !.height = Len(ch) + 1, !.time = t]
        b2 == [b1 EXCEPT !.hash = SHA256(JSONstringifyBlock(b1))]
    IN  [chain |-> Append(ch, b2), height |-> h + 1, resolved |-> TRUE]

\* A slip: === for !== in the test after the push.
addBlockCommit_inverted(ch, h, block, t) ==
    LET b1 == [block EXCEPT !.height = Len(ch), !.time = t]
        b2 == [b1 EXCEPT !.hash = SHA256(JSONstringifyBlock(b1))]
        ch2 == Append(ch, b2)
    IN  IF h = Len(ch2)
        THEN [chain |-> ch2, height |-> h + 1, resolved |-> TRUE]
        ELSE [chain |-> ch2, height |-> h, resolved |-> FALSE]

\* Lines 63-73 of _addBlock, run without interruption: seal, push, count.
\* resolved is FALSE when the promise is rejected with the block instead.
addBlockCommit(ch, h, block, t) ==
    LET b1 == [block EXCEPT !.height = Len(ch), !.time = t]
        b2 == [b1 EXCEPT !.hash = SHA256(JSONstringifyBlock(b1))]
        ch2 == Append(ch, b2)
    IN  IF h # Len(ch2)
        THEN [chain |-> ch2, height |-> h + 1, resolved |-> TRUE]
        ELSE [chain |-> ch2, height |-> h, resolved |-> FALSE]

\* A slip: the first block of the chain, whatever the height asked for.
getBlockByHeight_first(ch, h) == IF Len(ch) > 0 THEN 1 ELSE 0

\* A slip: the height asked for is taken for a position counted from 1.
getBlockByHeight_fromOne(ch, h) == IF h \in 1..Len(ch) THEN h ELSE 0

\* getBlockByHeight(h): the position (from 1) of the first block whose height
\* field is h, 0 for null.
getBlockByHeight(ch, h) ==
    LET hits == {i \in 1..Len(ch) : ch[i].height = h}
    IN  IF hits = {} THEN 0 ELSE CHOOSE i \in hits : \A j \in hits : i <= j

LinkMessage == "error: prevHash and blockPrevHash not valid"
TamperMessage == "error: data has been modified or data it's not valid"

\* A slip: the expected hash advances only past a block whose link is right.
RECURSIVE LinkErrors_cascade(_, _, _)
LinkErrors_cascade(ch, i, prevHash) ==
    IF i > Len(ch) THEN <<>>
    ELSE IF ch[i].previousBlockHash # prevHash
         THEN << [prevHash |-> prevHash,
                  blockPrevHash |-> ch[i].previousBlockHash,
                  message |-> LinkMessage] >>
              \o LinkErrors_cascade(ch, i + 1, prevHash)
         ELSE LinkErrors_cascade(ch, i + 1, ch[i].hash)

\* The part of each forEach callback of validateChain that runs before its
\* await, over the blocks from position i on: the link errors, in order.
RECURSIVE LinkErrors(_, _, _)
LinkErrors(ch, i, prevHash) ==
    IF i > Len(ch) THEN <<>>
    ELSE (IF ch[i].previousBlockHash # prevHash
          THEN << [prevHash |-> prevHash,
                   blockPrevHash |-> ch[i].previousBlockHash,
                   message |-> LinkMessage] >>
          ELSE <<>>)
         \o LinkErrors(ch, i + 1, ch[i].hash)

\* The part of the callbacks after their await: each runs once every callback
\* has run its first part, so prevHash is the last block's hash by then.  A
\* callback whose block.validate() rejects throws out of the await and pushes
\* nothing.
RECURSIVE TamperErrors(_, _)
TamperErrors(ch, i) ==
    IF i > Len(ch) THEN <<>>
    ELSE (IF validate(ch[i]) = "resolve_false"
          THEN << [prevHash |-> ch[Len(ch)].hash,
                   blockPrevHash |-> ch[i].previousBlockHash,
                   message |-> TamperMessage] >>
          ELSE <<>>)
         \o TamperErrors(ch, i + 1)

\* validateChain(): a promise; value is the errorLog its caller receives,
\* rejected the positions whose callback ended in an unhandled rejection.
validateChain(ch) ==
    [promise |-> TRUE,
     value |-> LinkErrors(ch, 1, Null) \o TamperErrors(ch, 1),
     rejected |-> {i \in 1..Len(ch) : validate(ch[i]) = "reject_false"}]

\* x.length: undefined (NaN in a comparison) on a promise.
LengthProperty(x) == IF x.promise THEN NaN ELSE Num(Len(x.value))
GreaterThanZero(n) == IsNum(n) /\ n[1] > 0

\* `${address}:${seconds}:starRegistry`, as its colon-separated fields.
DecimalText(n) == <<"digits", n>>
requestMessageOwnershipVerification(address, t) ==
    IF address = <<>> THEN [rejected |-> TRUE, value |-> <<>>]
    ELSE [rejected |-> FALSE, value |-> <<address, DecimalText(t), "starRegistry">>]

\* parseInt(message.split(':')[1])
parseIntField(message) ==
    IF Len(message) >= 2 /\ message[2][1] = "digits" THEN Num(message[2][2]) ELSE NaN
\* a - b on numbers that may be NaN
Minus(a, b) == IF IsNum(a) /\ IsNum(b) THEN Num(a[1] - b[1]) ELSE NaN
\* A slip: < for <=.
WithinWindow_strict(diffTime) ==
    IsNum(diffTime) /\ diffTime[1] < WindowMinutes * SecondsPerMinute

\* diffTime / 60 <= 5
WithinWindow(diffTime) ==
    IsNum(diffTime) /\ diffTime[1] <= WindowMinutes * SecondsPerMinute

\* bitcoinMessage.verify(message, address, signature), the external verifier:
\* a signature is valid or invalid for (message, address), or so malformed
\* that the verifier throws.
Signatures == {"valid", "invalid", "malformed"}
\* A slip: a signature is good once for an address; with a block of that
\* owner stored, it verifies no more.
bitcoinMessageVerify_once(message, address, signature) ==
    IF \E i \in 1..Len(chain) : Owner(getBData(chain[i])) = address
    THEN "false"
    ELSE CASE signature = "valid" -> "true"
           [] signature = "invalid" -> "false"
           [] OTHER -> "throws"
bitcoinMessageVerify(message, address, signature) ==
    CASE signature = "valid" -> "true"
      [] signature = "invalid" -> "false"
      [] OTHER -> "throws"

\* ------------------------------------------------------------- the calls
NoResult == [kind |-> "none", block |-> 0, errors |-> <<>>]
IdleCall ==
    [pc |-> "idle", address |-> <<>>, star |-> <<>>, diffTime |-> NaN,
     verified |-> FALSE, prevBlock |-> 0, result |-> NoResult]

Settled(c) == calls[c].pc \in {"idle", "done", "hung"}
\* A new call takes the first record whose call has settled.
FreeSlot(c) == Settled(c) /\ \A d \in CallIds : d < c => ~Settled(d)
\* The calls that may still push a block.
Appending == {c \in CallIds : \/ calls[c].pc = "addBlock"
                              \/ calls[c].pc = "verify" /\ calls[c].verified}

\* What a lookup leaves with its caller: the operation, its argument (a
\* number n as <<n>>) and what it returned; none after any other step.
Ret(op, arg, value) == <<op, arg, value>>
Op(r) == r[1]
Arg(r) == r[2]
Value(r) == r[3]
NoRet == Ret("none", <<>>, <<>>)

\* A slip: the genesis block is appended whatever the height, linked to the
\* last block.
initializeChain_always(ch, h, t) ==
    LET g == Block(GenesisData)
        block == IF Len(ch) > 0
                 THEN [g EXCEPT !.previousBlockHash = ch[Len(ch)].hash]
                 ELSE g
        st == addBlockCommit(ch, h, block, t)
    IN  [chain |-> st.chain, height |-> st.height]

\* A slip: the store waits for nothing, and the genesis block is not there
\* when the constructor returns.
initializeChain_deferred(ch, h, t) == [chain |-> ch, height |-> h]

\* initializeChain(): the chain and height it leaves.  With height -1 it calls
\* _addBlock, which on an empty chain seals and pushes without an await; on
\* a chain that is not empty _addBlock would find no block of height -1 and
\* throw on prevBlock.hash, pushing nothing.
initializeChain(ch, h, t) ==
    IF h = -1
    THEN IF Len(ch) > 0
         THEN [chain |-> ch, height |-> h]
         ELSE LET st == addBlockCommit(ch, h, Block(GenesisData), t)
              IN  [chain |-> st.chain, height |-> st.height]
    ELSE [chain |-> ch, height |-> h]

\* new Blockchain(): chain = [], height = -1, initializeChain().
Constructor(t) == initializeChain(<<>>, -1, t)

Init ==
    LET g == Constructor(StartTime)
    IN  /\ chain = g.chain
        /\ height = g.height
        /\ now = StartTime
        /\ calls = [c \in CallIds |-> IdleCall]
        /\ mq = <<>>
        /\ overlap = FALSE
        /\ tampered = {}
        /\ ret = NoRet

\* The messages a caller submits: a challenge issued now, one issued exactly
\* the window ago, one issued a second earlier, and one without a second field.
Window == WindowMinutes * SecondsPerMinute
Messages(address) ==
    { requestMessageOwnershipVerification(address, now - d).value : d \in {0, Window, Window + 1} }
    \cup { <<address>> }

\* submitStar up to its first await (part_000:109-118).  A call that has
\* settled keeps only what its result is made of.
SubmitStart(c, address, message, signature, star) ==
    /\ FreeSlot(c)
    /\ LET vc == validateChain(chain)
           diffTime == Minus(Num(now), parseIntField(message))
           outcome == bitcoinMessageVerify(message, address, signature)
       IN  IF GreaterThanZero(LengthProperty(vc))
           THEN calls' = [calls EXCEPT ![c] =
                    [IdleCall EXCEPT !.pc = "done",
                        !.result = [kind |-> "chainErrors", block |-> 0, errors |-> vc.value]]]
           ELSE IF WithinWindow(diffTime)
           THEN IF outcome = "throws"
                THEN calls' = [calls EXCEPT ![c] =
                         [IdleCall EXCEPT !.pc = "hung", !.diffTime = diffTime]]
                ELSE /\ outcome = "true" => Len(chain) + Cardinality(Appending) < MaxChain
                     /\ calls' = [calls EXCEPT ![c] =
                         [IdleCall EXCEPT !.pc = "verify", !.address = address,
                                          !.star = star, !.diffTime = diffTime,
                                          !.verified = (outcome = "true")]]
           ELSE calls' = [calls EXCEPT ![c] =
                    [IdleCall EXCEPT !.pc = "done", !.diffTime = diffTime,
                        !.result = [kind |-> "timeout", block |-> 0, errors |-> <<>>]]]
    /\ ret' = NoRet
    /\ UNCHANGED <<chain, height, now, mq, overlap, tampered>>

\* submitStar after the verifier's answer (part_000:120-125), into _addBlock
\* up to its await (part_000:59-60).
SubmitVerified(c) ==
    /\ calls[c].pc = "verify"
    /\ IF calls[c].verified
       THEN IF Len(chain) > 0
            THEN /\ calls' = [calls EXCEPT ![c].pc = "addBlock",
                                  ![c].prevBlock = getBlockByHeight(chain, height)]
                 /\ mq' = Append(mq, c)
                 /\ overlap' = (overlap \/ mq # <<>>)
                 /\ UNCHANGED <<chain, height>>
            ELSE LET st == addBlockCommit(chain, height,
                               Block(StarData(calls[c].address, calls[c].star)), now)
                 IN  /\ chain' = st.chain
                     /\ height' = st.height
                     /\ calls' = [calls EXCEPT ![c].pc = "done",
                            ![c].result = [kind |-> "block", block |-> Len(st.chain),
                                           errors |-> <<>>]]
                     /\ UNCHANGED <<mq, overlap>>
       ELSE /\ calls' = [calls EXCEPT ![c] =
                   [IdleCall EXCEPT !.pc = "done", !.diffTime = calls[c].diffTime,
                       !.result = [kind |-> "notVerified", block |-> 0, errors |-> <<>>]]]
            /\ UNCHANGED <<chain, height, mq, overlap>>
    /\ ret' = NoRet
    /\ UNCHANGED <<now, tampered>>

\* _addBlock after its await (part_000:61-73): the oldest waiting call goes on.
\* prevBlock.hash of a null prevBlock throws inside the promise's executor:
\* the promise never settles.
AddBlockResume(c) ==
    /\ mq # <<>> /\ c = Head(mq)
    /\ mq' = Tail(mq)
    /\ IF calls[c].prevBlock = 0
       THEN /\ calls' = [calls EXCEPT ![c].pc = "hung"]
            /\ UNCHANGED <<chain, height>>
       ELSE LET block == [Block(StarData(calls[c].address, calls[c].star))
                            EXCEPT !.previousBlockHash = chain[calls[c].prevBlock].hash]
                st == addBlockCommit(chain, height, block, now)
            IN  /\ chain' = st.chain
                /\ height' = st.height
                /\ calls' = [calls EXCEPT ![c].pc = "done", ![c].prevBlock = 0,
                       ![c].result = [kind |-> "block", block |-> Len(st.chain),
                                      errors |-> <<>>]]
    /\ ret' = NoRet
    /\ UNCHANGED <<now, overlap, tampered>>

\* The clock advances.
Tick ==
    /\ now < StartTime + MaxTicks
    /\ now' = now + 1
    /\ ret' = NoRet
    /\ UNCHANGED <<chain, height, calls, mq, overlap, tampered>>

\* Somebody outside the class changes one field of a stored block.
ForgedHash == SHA256(<< <<"forged", <<>> >> >>)
ForgedBody == EncodeBody(<< <<"data", <<120>> >> >>)
TamperFields == {"height", "body", "time", "previousBlockHash", "hash", "rehash"}
Tamper(i, f) ==
    /\ i \in 1..Len(chain) /\ i \notin tampered
    /\ Cardinality(tampered) < MaxTampers
    /\ chain' = [chain EXCEPT ![i] =
          CASE f = "height" -> [@ EXCEPT !.height = @ + 1]
            [] f = "body" -> [@ EXCEPT !.body = ForgedBody]
            [] f = "time" -> [@ EXCEPT !.time = @ + 1]
            [] f = "previousBlockHash" -> [@ EXCEPT !.previousBlockHash = ForgedHash]
            [] f = "hash" -> [@ EXCEPT !.hash = ForgedHash]
            [] OTHER -> [@ EXCEPT !.hash = SHA256(JSONstringifyCurrentData(chain[i]))]]
    /\ tampered' = tampered \cup {i}
    /\ ret' = NoRet
    /\ UNCHANGED <<height, now, calls, mq, overlap>>

\* Concurrent callers, nobody tampering.
Next ==
    \/ \E c \in CallIds, a \in Addresses, s \in Signatures, st \in Stars :
          \E m \in Messages(a) : SubmitStart(c, a, m, s, st)
    \/ \E c \in CallIds : SubmitVerified(c)
    \/ \E c \in CallIds : AddBlockResume(c)
    \/ Tick

Spec == Init /\ [][Next]_vars

\* One caller at a time, and blocks modified from outside.
NextTamper ==
    \/ \E a \in Addresses, s \in Signatures, st \in Stars :
          \E m \in Messages(a) : SubmitStart(1, a, m, s, st)
    \/ SubmitVerified(1)
    \/ AddBlockResume(1)
    \/ Tick
    \/ \E i \in 1..MaxChain, f \in TamperFields : Tamper(i, f)

SpecTamper == Init /\ [][NextTamper]_vars

\* ------------------------------------------------------------ the lookups
\* getChainHeight()
getChainHeight(h) == h

\* getBlockByHash(hash): the position (from 1) of the first block with this
\* hash; rejected with null when there is none.
getBlockByHash(ch, hash) ==
    LET hits == {i \in 1..Len(ch) : ch[i].hash = hash}
    IN  IF hits = {} THEN [rejected |-> TRUE, value |-> 0]
        ELSE [rejected |-> FALSE, value |-> CHOOSE i \in hits : \A j \in hits : i <= j]

\* getStarsByWalletAddress(address): each callback awaits getBData() of its
\* block and pushes after it; the continuations are queued in chain order
\* before the promise resolves, so they have all run when the caller's own
\* continuation runs and reads the array.
getStarsByWalletAddress(ch, address) ==
    LET Owned(b) == Owner(getBData(b)) = address
    IN  [i \in 1..Len(SelectSeq(ch, Owned)) |-> getBData(SelectSeq(ch, Owned)[i])]

\* The arguments the callers look up with.
HeightArgs == -1..MaxChain
HashArgs == {chain[i].hash : i \in 1..Len(chain)} \cup {ForgedHash}
AddressArgs == Owners \cup {Undefined}

\* What a lookup leaves alone.
store == <<chain, height, now, calls, mq, overlap, tampered>>

GetChainHeight ==
    /\ ret' = Ret("getChainHeight", <<>>, getChainHeight(height))
    /\ UNCHANGED store
GetBlockByHash(hash) ==
    /\ ret' = Ret("getBlockByHash", hash, getBlockByHash(chain, hash))
    /\ UNCHANGED store
GetBlockByHeight(h) ==
    /\ ret' = Ret("getBlockByHeight", Num(h), getBlockByHeight(chain, h))
    /\ UNCHANGED store
GetStarsByWalletAddress(address) ==
    /\ ret' = Ret("getStarsByWalletAddress", address,
                  getStarsByWalletAddress(chain, address))
    /\ UNCHANGED store
ValidateChain ==
    /\ ret' = Ret("validateChain", <<>>, validateChain(chain).value)
    /\ UNCHANGED store
RequestMessageOwnershipVerification(address) ==
    /\ ret' = Ret("requestMessageOwnershipVerification", address,
                  requestMessageOwnershipVerification(address, now))
    /\ UNCHANGED store
\* block.validate() and block.getBData() on the block stored at position i.
BlockValidate(i) ==
    /\ i \in 1..Len(chain)
    /\ ret' = Ret("validate", Num(i), validate(chain[i]))
    /\ UNCHANGED store
BlockGetBData(i) ==
    /\ i \in 1..Len(chain)
    /\ ret' = Ret("getBData", Num(i), getBData(chain[i]))
    /\ UNCHANGED store

\* initializeChain() called again on the constructed store.
InitializeChain ==
    LET st == initializeChain(chain, height, now)
    IN  /\ chain' = st.chain
        /\ height' = st.height
        /\ ret' = Ret("initializeChain", <<>>, <<>>)
        /\ UNCHANGED <<now, calls, mq, overlap, tampered>>

\* The challenge a caller has just been issued.
FreshMessage(address) == requestMessageOwnershipVerification(address, now).value

\* Concurrent registering callers with fresh challenges and good signatures,
\* and callers looking up between their steps.
NextRead ==
    \/ \E c \in CallIds, a \in Owners, st \in Stars :
          SubmitStart(c, a, FreshMessage(a), "valid", st)
    \/ \E c \in CallIds : SubmitVerified(c)
    \/ \E c \in CallIds : AddBlockResume(c)
    \/ InitializeChain
    \/ GetChainHeight
    \/ \E hash \in HashArgs : GetBlockByHash(hash)
    \/ \E h \in HeightArgs : GetBlockByHeight(h)
    \/ \E a \in AddressArgs : GetStarsByWalletAddress(a)
    \/ ValidateChain
    \/ \E a \in Owners \cup {<<>>} : RequestMessageOwnershipVerification(a)
    \/ \E i \in 1..MaxChain : BlockValidate(i)
    \/ \E i \in 1..MaxChain : BlockGetBData(i)

SpecRead == Init /\ [][NextRead]_vars

\* One registering caller, links of stored blocks modified from outside, and
\* the validator called between the steps.
LinkFields == {"previousBlockHash", "hash"}
NextAudit ==
    \/ \E st \in Stars, a \in Addresses : SubmitStart(1, a, FreshMessage(a), "valid", st)
    \/ SubmitVerified(1)
    \/ AddBlockResume(1)
    \/ \E i \in 1..MaxChain, f \in LinkFields : Tamper(i, f)
    \/ ValidateChain

SpecAudit == Init /\ [][NextAudit]_vars

\* The one challenge each owner holds: "a" was issued it when the store was
\* constructed, "b" the window before.
HeldChallenge(address) ==
    requestMessageOwnershipVerification(address,
        IF address = <<97>> THEN StartTime ELSE StartTime - Window).value

\* Concurrent callers who register every star with the challenge they hold.
NextReuse ==
    \/ \E c \in CallIds, a \in Owners, st \in Stars :
          SubmitStart(c, a, HeldChallenge(a), "valid", st)
    \/ \E c \in CallIds : SubmitVerified(c)
    \/ \E c \in CallIds : AddBlockResume(c)
    \/ Tick

SpecReuse == Init /\ [][NextReuse]_vars

\* ------------------------------------------------------------- properties
\* Every block but the first names the hash of the block stored before it,
\* and the first names none.
LinksOK(ch) ==
    \A i \in 1..Len(ch) :
        ch[i].previousBlockHash = (IF i = 1 THEN Null ELSE ch[i - 1].hash)

Succeeded(c) == calls[c].pc = "done" /\ calls[c].result.kind = "block"

\* C1: two submits started concurrently both succeed, and each block they
\* add has the next free sequence index and names the hash of the block stored
\* immediately before it.
C1_ConcurrentSubmitsLinked ==
    \A c \in CallIds :
        Succeeded(c) =>
            LET i == calls[c].result.block
            IN  /\ chain[i].height = i - 1
                /\ i > 1 => chain[i].previousBlockHash = chain[i - 1].hash

\* C2: as long as every append completed before the next one started, every
\* stored block after the genesis block names the stored hash of the block
\* before it, and the genesis block names no predecessor.
C2_SequentialAppendsLinked == ~overlap => LinksOK(chain)

\* C2 witness: two appends done one after the other.
C2_Witness == ~overlap /\ Len(chain) = 3 /\ \A c \in CallIds : Succeeded(c)

\* C3: a submit that starts while validateChain would report errors returns
\* those errors at once: it does not reach the verifier and appends nothing.
C3_SubmitFailsClosed ==
    [][\A c \in CallIds :
          (FreeSlot(c) /\ calls'[c] # calls[c] /\ validateChain(chain).value # <<>>)
          => /\ calls'[c].pc = "done"
             /\ calls'[c].result.kind = "chainErrors"
             /\ calls'[c].result.errors = validateChain(chain).value
             /\ chain' = chain /\ height' = height]_vars

ReportsFalse(outcome) == outcome \in {"resolve_false", "reject_false"}

\* C4: validate() reports true for every stored block none of whose fields
\* has changed since it was sealed, and false for every block with a changed
\* field.
C4_ValidateAgreesWithSealing ==
    \A i \in 1..Len(chain) :
        IF i \in tampered
        THEN ReportsFalse(validate(chain[i]))
        ELSE validate(chain[i]) = "resolve_true"

\* C5: the error log validateChain returns holds a tamper error for every
\* block that was changed after it was appended.
C5_TamperReported ==
    \A i \in tampered :
        \E k \in 1..Len(validateChain(chain).value) :
            LET e == validateChain(chain).value[k]
            IN  /\ e.message = TamperMessage
                /\ e.blockPrevHash = chain[i].previousBlockHash

\* C6: validateChain returns an empty error log for every chain built by
\* initializeChain and appends alone.
C6_BuiltChainValidates == tampered = {} => validateChain(chain).value = <<>>

\* C7: a step changes the chain only as the success of one submit, which
\* appends exactly one block, adds one to height, and whose new last block
\* decodes to {owner: address, star: star}; every other step of a submit,
\* its failure included, leaves chain and height as they were.
C7_SubmitEffect ==
    [][\/ chain' = chain /\ height' = height
       \/ \E c \in CallIds :
            /\ ~Succeeded(c) /\ Succeeded(c)'
            /\ chain' = Append(chain, chain'[Len(chain')])
            /\ height' = height + 1
            /\ calls'[c].result.block = Len(chain')
            /\ getBData(chain'[Len(chain')])
                  = StarData(calls[c].address, calls[c].star)]_vars

C9_NotVerifiedAlwaysReturned ==
    \A c \in CallIds :
        (calls[c].pc # "idle" /\ WithinWindow(calls[c].diffTime) /\ ~calls[c].verified) =>
            \/ calls[c].pc = "verify"
            \/ calls[c].pc = "done" /\ calls[c].result.kind = "notVerified"

\* C10: in every state, between operations and at every await of a call in
\* flight, height is the length of the chain less one, and -1 only for the
\* empty chain.
C10_HeightIsLengthLessOne ==
    /\ height = Len(chain) - 1
    /\ height = -1 <=> chain = <<>>

\* C10 witness: an append waits at its await after another has committed.
C10_Witness ==
    /\ Len(chain) >= 2
    /\ \E c \in CallIds : calls[c].pc = "addBlock"

\* The genesis block as the constructor seals it.
GenesisBody == EncodeBody(GenesisData)
IsGenesis(b) ==
    /\ b.height = 0 /\ b.body = GenesisBody
    /\ b.previousBlockHash = Null /\ b.hash # Null

\* C11: on a newly constructed store the genesis block is committed before
\* any caller's operation runs: no state a caller can observe has height -1
\* or an empty chain, getChainHeight on the store nobody has appended to
\* returns 0, and the first block a caller appends has sequence index 1 and
\* names the genesis block's hash.
C11_GenesisBeforeAnyOperation ==
    /\ Len(chain) >= 1 /\ height >= 0
    /\ IsGenesis(chain[1])
    /\ Op(ret) = "getChainHeight" =>
          /\ Value(ret) >= 0
          /\ Len(chain) = 1 => Value(ret) = 0
    /\ \A c \in CallIds : Succeeded(c) => calls[c].result.block >= 2
    /\ Len(chain) >= 2 =>
          /\ chain[2].height = 1
          /\ chain[2].previousBlockHash = chain[1].hash

\* C11 witness: the first caller's block is stored and the height has just
\* been read.
C11_Witness ==
    /\ Len(chain) = 2
    /\ \E c \in CallIds : Succeeded(c) /\ calls[c].result.block = 2
    /\ Op(ret) = "getChainHeight" /\ Value(ret) = 1

\* The decoded payloads of the blocks after the genesis block whose owner is
\* the address, in chain order.
OwnedPayloads(ch, address) ==
    LET Owned(b) == Owner(DecodeBody(b.body)) = address
        owned == SelectSeq(Tail(ch), Owned)
    IN  [i \in 1..Len(owned) |-> DecodeBody(owned[i].body)]

\* C12: getStarsByWalletAddress(address) returns, for every chain and every
\* address, an absent one included, exactly the decoded payloads of the blocks
\* after the genesis block whose owner is the address, in chain order, and
\* nothing made from the genesis block.
C12_OwnedPayloadsOnly ==
    Op(ret) = "getStarsByWalletAddress" =>
        /\ Value(ret) = OwnedPayloads(chain, Arg(ret))
        /\ \A i \in 1..Len(Value(ret)) : Value(ret)[i] # GenesisError

\* C13: getBData signals 'genesis block' for the genesis block and for no
\* other, and on the block a submit stored it returns the very object
\* {owner, star} the block was constructed with.
C13_DecodeRoundTrip ==
    Op(ret) = "getBData" =>
        /\ Value(ret) = GenesisError <=> Arg(ret) = Num(1)
        /\ \A c \in CallIds :
              (Succeeded(c) /\ Num(calls[c].result.block) = Arg(ret)) =>
                  Value(ret) = StarData(calls[c].address, calls[c].star)

\* C14: getBlockByHeight(i) returns the block stored at position i for
\* 0 <= i <= height, the genesis block for 0, and null, not an error, for
\* every i above height and every negative i.
C14_GetBlockByHeight ==
    Op(ret) = "getBlockByHeight" =>
        LET i == Arg(ret)[1]
        IN  IF i \in 0..height
            THEN /\ Value(ret) = i + 1
                 /\ chain[Value(ret)].height = i
                 /\ i = 0 => IsGenesis(chain[Value(ret)])
            ELSE Value(ret) = 0

\* C14 witness: the index one past the last block of a grown chain was asked
\* for.
C14_Witness ==
    /\ Op(ret) = "getBlockByHeight" /\ Arg(ret) = Num(height + 1) /\ Value(ret) = 0
    /\ Len(chain) = MaxChain

\* C15: every step of every operation leaves the blocks stored before it in
\* place with their five fields as they were, and a step of validateChain or
\* of Block.validate changes neither the chain nor the height.
C15_AppendOnly ==
    [][/\ Len(chain') >= Len(chain)
       /\ \A i \in 1..Len(chain) : chain'[i] = chain[i]
       /\ Op(ret') \in {"validateChain", "validate"} =>
             chain' = chain /\ height' = height]_vars

\* C15 witness: a stored block was validated on the longest chain.
C15_Witness ==
    Op(ret) = "validate" /\ Arg(ret) = Num(MaxChain) /\ Len(chain) = MaxChain

\* The positions whose block does not name the hash of the block before it.
BadLinks(ch) ==
    {k \in 1..Len(ch) :
        ch[k].previousBlockHash # (IF k = 1 THEN Null ELSE ch[k - 1].hash)}

\* C16: validateChain does not cascade link errors: on a chain where exactly
\* one block k has a wrong previousBlockHash it reports exactly one link
\* error, with the hash of block k-1 as expected and the previousBlockHash of
\* block k as found, and none for the blocks after k.
C16_NoCascade ==
    (Op(ret) = "validateChain" /\ Cardinality(BadLinks(chain)) = 1) =>
        LET k == CHOOSE k \in BadLinks(chain) : TRUE
            IsLink(e) == e.message = LinkMessage
        IN  SelectSeq(Value(ret), IsLink) =
                << [prevHash |-> IF k = 1 THEN Null ELSE chain[k - 1].hash,
                    blockPrevHash |-> chain[k].previousBlockHash,
                    message |-> LinkMessage] >>

\* C16 witness: the validator ran on a chain whose only wrong link is that of
\* the block at sequence index 1, with a block stored after it.
C16_Witness ==
    /\ Op(ret) = "validateChain" /\ Len(Value(ret)) = 1
    /\ BadLinks(chain) = {2} /\ Len(chain) = 3

\* C17: in every state, under any interleaving of concurrent submits, the
\* block at position i has sequence index i and a hash that is not absent.
C17_IndexedAndSealed ==
    \A i \in 1..Len(chain) :
        chain[i].height = i - 1 /\ chain[i].hash # Null

\* C17 witness: two overlapping appends have both committed.
C17_Witness ==
    /\ overlap /\ Len(chain) = 3
    /\ \E c, d \in CallIds :
          /\ Succeeded(c) /\ calls[c].result.block = 2
          /\ Succeeded(d) /\ calls[d].result.block = 3

\* C18: initializeChain called on a store that has its genesis block, in any
\* state and any number of times, appends nothing and leaves chain and height
\* as they were; the chain holds exactly one genesis block at all times.
C18_InitializeIdempotent ==
    [][/\ Op(ret') = "initializeChain" => chain' = chain /\ height' = height
       /\ Cardinality({i \in 1..Len(chain') : chain'[i].body = GenesisBody}) = 1]_vars

\* C18 witness: initializeChain was called on a chain that had grown.
C18_Witness == Op(ret) = "initializeChain" /\ Len(chain) = MaxChain

\* C19: the branch of _addBlock taken when height equals the chain's length
\* right after the push is never taken: whichever block is pushed next, the
\* push commits it and counts it, and every call that pushed has the sealed
\* block it stored and has been counted.
C19_RejectBranchUnreachable ==
    /\ \A a \in Owners, st \in Stars :
          LET next == addBlockCommit(chain, height, Block(StarData(a, st)), now)
          IN  next.resolved /\ next.height = height + 1
    /\ \A c \in CallIds :
          Succeeded(c) =>
              /\ chain[calls[c].result.block].hash # Null
              /\ height >= calls[c].result.block - 1

\* C19 witness: a call has pushed its block while another is about to push.
C19_Witness ==
    \E c, d \in CallIds :
        /\ Succeeded(c) /\ calls[c].result.block = 2
        /\ calls[d].pc = "addBlock" /\ mq = <<d>>

\* C20: a challenge is not consumed by use: a submit made with its owner's
\* one challenge and signature while the challenge is within its window
\* succeeds and stores one more block, however many blocks the same challenge
\* has registered before.
C20_ChallengeNotConsumed ==
    /\ \A c \in CallIds :
          (calls[c].pc # "idle" /\ WithinWindow(calls[c].diffTime)) =>
              \/ calls[c].pc \in {"verify", "addBlock"} /\ calls[c].verified
              \/ /\ Succeeded(c)
                 /\ chain[calls[c].result.block].body =
                        EncodeBody(StarData(calls[c].address, calls[c].star))
    /\ \A c, d \in CallIds :
          (c # d /\ Succeeded(c) /\ Succeeded(d)) =>
              calls[c].result.block # calls[d].result.block

\* C20 witness: owner "a" registered a star at the second the challenge was
\* issued, and a second later registered another with the same challenge.
C20_Witness ==
    /\ Len(chain) = 3
    /\ \A i \in 2..3 : Owner(getBData(chain[i])) = <<97>>
    /\ chain[2].time = StartTime
    /\ \E c \in CallIds :
          Succeeded(c) /\ calls[c].result.block = 3 /\ calls[c].diffTime = Num(1)

====
